---- MODULE Spec2Model ----
(***************************************************************************)
(* The OCR batch pipeline of tools/ocr_pipeline.py: process_file (one      *)
(* file: classify, rasterize, recognize each page with bounded retry,      *)
(* aggregate, classify the status, persist) and process_files (a thread    *)
(* pool running process_file per input, collecting the futures as they     *)
(* complete, then writing the run summary).                                *)
(*                                                                         *)
(* Conventions.  Confidences and accuracies are in percent (100 = 1.0);    *)
(* the file-level mean is kept as the exact fraction num/den that the      *)
(* code computes as sum(page_accuracies) / float(len(page_accuracies)).    *)
(* A text is the sequence of its lines (the code's text_lines before the   *)
(* "\n".join); the empty text "" is << >>.  An Optional value is << >> for  *)
(* None and <<v>> for v; an Optional accuracy is << >> or <<num, den>>.      *)
(***************************************************************************)
EXTENDS Integers, Sequences, FiniteSets, TLC

\* ------------------------------------------------------------------ bounds
\* Inputs of one batch, and pages of one document in a batch.
MaxFiles == 2
MaxBatchPages == 1
\* Pages of the document, and max_retries, of a direct process_file call.
MaxPages == 2
MaxRetries == 2
\* Entries of one directory given to collect_input_files.
MaxEntries == 2
\* Segments of a text given to generate_summary.
MaxSegments == 3
\* Rows of the token data given to the text reconstruction.
MaxTokens == 3
\* Attempt numbers whose side budgets are given to _rescale_image.
MaxAttemptNo == 2

\* ------------------------------------------------------- program constants
DefaultMaxRetries == 2
DefaultThreshold == 95
DefaultMaxSide == 2400
Oem == 3

None == << >>
Some(v) == <<v>>

\* ------------------------------------------------------------------ inputs
\* Input paths: directory, stem, suffix.
Paths ==
  { [dir |-> "d1", stem |-> "a", ext |-> ".pdf"],
    [dir |-> "d1", stem |-> "a", ext |-> ".PNG"],
    [dir |-> "d2", stem |-> "b", ext |-> ".gif"],
    [dir |-> "d2", stem |-> "c", ext |-> ".docx"] }

WorkerCounts == {1, 2, 8}
Thresholds == {0, DefaultThreshold}
\* max_side of a direct call.
MaxSides == {DefaultMaxSide, 1001}

\* What one successful recognizer call returns: the reconstructed text and
\* the per-token confidences of the token data (-1 marks a non-word box).
RecOutcomes ==
  { [text |-> << >>,             conf |-> <<-1>>],
    [text |-> <<"w1 w2">>,       conf |-> <<100, 100>>],
    [text |-> <<"w1", "", "w2">>, conf |-> <<-1, 60, 100>>] }

\* ------------------------------------------------------------ pure helpers
RECURSIVE SumSeq(_)
SumSeq(s) == IF s = << >> THEN 0 ELSE Head(s) + SumSeq(Tail(s))

RECURSIVE Flatten(_)
Flatten(ss) == IF ss = << >> THEN << >> ELSE Head(ss) \o Flatten(Tail(ss))

Lower(ext) ==
  CASE ext = ".PNG" -> ".png"
    [] ext = ".PDF" -> ".pdf"
    [] OTHER -> ext

SUPPORTED_IMAGE_EXTS == {".jpg", ".jpeg", ".png", ".tif", ".tiff", ".bmp"}

\* mimetypes.guess_type keyed on the path's suffix.
GuessMime(ext) ==
  CASE Lower(ext) = ".pdf" -> "application/pdf"
    [] Lower(ext) \in {".gif", ".png", ".jpg", ".jpeg", ".bmp", ".tif", ".tiff"} -> "image/x"
    [] Lower(ext) = ".docx" -> "application/vnd.openxmlformats"
    [] OTHER -> "None"

detect_file_type(path) ==
  LET ext == Lower(path.ext) IN
  IF ext = ".pdf" THEN "pdf"
  ELSE IF ext \in SUPPORTED_IMAGE_EXTS THEN "image"
  ELSE LET mt == GuessMime(path.ext) IN
       IF mt = "application/pdf" THEN "pdf"
       ELSE IF mt \in {"image/x"} THEN "image"
       ELSE "unsupported"

\* Path(input_path).name
BaseName(path) == <<path.stem, path.ext>>

\* Output artifacts: kind, stem, page (0 when the artifact is per file).
HocrPath(path, page_idx) == [kind |-> "hocr", stem |-> path.stem, page |-> page_idx]
TextPath(path) == [kind |-> "text", stem |-> path.stem, page |-> 0]
ReportPath(path) == [kind |-> "reports", stem |-> path.stem, page |-> 0]
SummaryPath == [kind |-> "reports", stem |-> "ocr_run_summary", page |-> 0]

\* _accuracy_from_data, in percent; None when no conf is an integer >= 0.
KeptConf(c) == c >= 0

KeptConfs(confs) == SelectSeq(confs, KeptConf)

ClipPct(v) == IF v < 0 THEN 0 ELSE IF v > 100 THEN 100 ELSE v

_accuracy_from_data(data) ==
  LET confs == KeptConfs(data.conf) IN
  IF confs = << >> THEN None
  ELSE Some(ClipPct(SumSeq(confs) \div Len(confs)))

\* Faulty variant: a page without a confidence counts as fully confident.
PageAccuracyOrFull(data) ==
  LET a == _accuracy_from_data(data) IN IF a = None THEN 100 ELSE a[1]

\* acc = _accuracy_from_data(data) or 0.0
PageAccuracy(data) ==
  LET a == _accuracy_from_data(data) IN IF a = None THEN 0 ELSE a[1]

\* Faulty variant: the loop stops one attempt early.
RetryAllowedStrict(attempt, retries) == attempt < retries

\* The while condition of the retry loop.
RetryAllowed(attempt, retries) == attempt <= retries

\* What a page that failed every attempt contributes.
FailedPageText == << >>
FailedPageAccuracy == 0

\* f"=== [PAGE {idx}] ==="
MarkerLines ==
  << "=== [PAGE 1] ===", "=== [PAGE 2] ===", "=== [PAGE 3] ===",
     "=== [PAGE 4] ===", "=== [PAGE 5] ===" >>

Marker(idx) == MarkerLines[idx]

\* Faulty variant: a page without text gets no marker.
PageLinesSkipEmpty(idx, t) ==
  IF t # << >> THEN <<Marker(idx)>> \o t \o <<"">> ELSE << >>

\* The lines one page adds to combined_lines: marker, text if truthy, "".
PageLines(idx, t) ==
  <<Marker(idx)>> \o (IF t # << >> THEN t ELSE << >>) \o <<"">>

\* combined_lines, with each page's text split into its lines.
CombineLines(page_texts) ==
  Flatten([idx \in 1..Len(page_texts) |-> PageLines(idx, page_texts[idx])])

\* Faulty variant: the mean is taken over the pages with a positive confidence only.
MeanOfPositive(page_accuracies) ==
  LET pos == SelectSeq(page_accuracies, LAMBDA a : a > 0) IN
  IF pos = << >> THEN None ELSE <<SumSeq(pos), Len(pos)>>

\* avg_acc: None for no page, else the fraction sum / len.
MeanAccuracy(page_accuracies) ==
  IF page_accuracies = << >> THEN None
  ELSE <<SumSeq(page_accuracies), Len(page_accuracies)>>

\* Faulty variant: a mean equal to the threshold counts as below it.
BelowOrEqual(avg, threshold) == avg[1] <= threshold * avg[2]

\* avg_acc < accuracy_threshold, threshold in percent.
BelowThreshold(avg, threshold) == avg[1] < threshold * avg[2]

\* Faulty variant: a file whose pages all scored zero is failed.
StatusOfZeroFailed(avg, threshold) ==
  IF avg # None /\ avg[1] = 0 THEN "failed"
  ELSE IF avg # None /\ BelowThreshold(avg, threshold) THEN "low_accuracy"
  ELSE "success"

StatusOf(avg, threshold) ==
  IF avg # None /\ BelowThreshold(avg, threshold) THEN "low_accuracy" ELSE "success"

Err(kind, page, attempt) == [kind |-> kind, page |-> page, attempt |-> attempt]

\* Faulty variant: the unsupported result names a text artifact.
UnsupportedResultWithText(path, ft) ==
  [ original_filename |-> BaseName(path), file_type |-> ft, status |-> "failed",
    text_output_path |-> Some(TextPath(path)), hocr_paths |-> << >>,
    accuracy |-> None, page_count |-> 0,
    errors |-> <<Err("unsupported", 0, 0)>> ]

\* The OCRResult of an unsupported file.
UnsupportedResult(path, ft) ==
  [ original_filename |-> BaseName(path), file_type |-> ft, status |-> "failed",
    text_output_path |-> None, hocr_paths |-> << >>, accuracy |-> None,
    page_count |-> 0, errors |-> <<Err("unsupported", 0, 0)>> ]

\* Faulty variant: the synthetic record loses the exception message.
SyntheticFailedNoMessage(e) ==
  [ original_filename |-> <<"unknown", "">>, file_type |-> "unsupported",
    status |-> "failed", text_output_path |-> None, hocr_paths |-> << >>,
    accuracy |-> None, page_count |-> 0, errors |-> << >> ]

\* The record process_files builds for a future that raised.
SyntheticFailed(e) ==
  [ original_filename |-> <<"unknown", "">>, file_type |-> "unsupported",
    status |-> "failed", text_output_path |-> None, hocr_paths |-> << >>,
    accuracy |-> None, page_count |-> 0, errors |-> <<Err(e, 0, 0)>> ]

Put(d, p, c) == [q \in (DOMAIN d) \cup {p} |-> IF q = p THEN c ELSE d[q]]

\* ------------------------------------------------------------------- state
VARIABLES
  inputs,              \* process_files' inputs / process_file's input_path
  accuracy_threshold,  \* percent
  max_retries,
  max_workers,
  bpc,                 \* where process_files is; "direct" for a direct call
  submitted,           \* futures created so far (futs)
  fp,                  \* per input: the process_file invocation's frame
  results,             \* process_files' results list
  order,               \* which input each entry of results came from
  summary_writes,      \* how many times the run summary was written
  disk,                \* output tree: artifact path -> content
  collector,           \* a collect_input_files call: arguments and return value
  pytesseract,         \* the module global: "None" when the import failed
  gs,                  \* a generate_summary call: arguments, locals, return value
  recon,               \* _ocr_image's text reconstruction: token data and text
  rescale              \* a _rescale_image call: image size, budget, result

vars == << inputs, accuracy_threshold, max_retries, max_workers, bpc, submitted,
           fp, results, order, summary_writes, disk, collector, pytesseract, gs,
           recon, rescale >>

\* What the pipeline's steps only read.
config == << inputs, accuracy_threshold, max_retries, max_workers, collector,
            pytesseract, gs, recon, rescale >>

\* A process_file frame before the call.
Frame(pc0) ==
  [ pc |-> pc0, ft |-> "None", page_count |-> 0, page_idx |-> 0, attempt |-> 0,
    rec |-> None, last_err |-> None, errors |-> << >>, hocr_paths |-> << >>,
    page_texts |-> << >>, page_accuracies |-> << >>, page_status |-> << >>,
    result |-> None, exc |-> "None",
    max_side |-> DefaultMaxSide,
    worker |-> 0,     \* the pool thread running the call (0: none)
    calls |-> 0,      \* history: _ocr_image calls made for the current page
    ncalls |-> 0,     \* history: _ocr_image calls made by the invocation
    plog |-> << >>,   \* history: the parameters of the current page's attempts
    rlog |-> << >> ]  \* history: per finished page, what _ocr_image returned

Files == 1..Len(inputs)

Finished(i) == fp[i].pc \in {"done", "raised"}
Running(i) == fp[i].pc \notin {"unsubmitted", "queued", "done", "raised"}
NumRunning == Cardinality({i \in Files : Running(i)})

\* The frame is gone once the call returned or raised.
Return(i, res) == [Frame("done") EXCEPT !.result = Some(res), !.ft = fp[i].ft]
Raise(i, e) == [Frame("raised") EXCEPT !.exc = e, !.ft = fp[i].ft]

InputLists == UNION {[1..k -> Paths] : k \in 0..MaxFiles}

\* The recognizer binding after the module's imports: the pytesseract
\* module, or None when the import raised.
Recognizers == {"module", "None"}

\* No text reconstruction and no _rescale_image call is part of the run.
NoReconstruction == [data |-> << >>, text |-> None]
NoRescale == [w |-> 0, h |-> 0, max_side |-> 0, out |-> None]

\* No generate_summary call is part of the run.
NoSummaryCall ==
  [ pc |-> "none", text |-> << >>, title |-> << >>, target_chars |-> 0,
    uni |-> "None", summary |-> << >>, summary2 |-> << >>, ret |-> << >>,
    exit |-> 0 ]

\* No collect_input_files call is part of the run.
NoCollector == [input_path |-> None, recursive |-> FALSE, files |-> None]

Init ==
  /\ inputs \in InputLists
  /\ accuracy_threshold \in Thresholds
  /\ max_retries = DefaultMaxRetries
  /\ max_workers \in WorkerCounts
  /\ bpc = "start"
  /\ submitted = 0
  /\ fp = [i \in Files |-> Frame("unsubmitted")]
  /\ results = << >>
  /\ order = << >>
  /\ summary_writes = 0
  /\ disk = << >>
  /\ collector = NoCollector
  /\ pytesseract \in Recognizers
  /\ gs = NoSummaryCall
  /\ recon = NoReconstruction
  /\ rescale = NoRescale

\* A direct call of process_file on one path.
InitFile ==
  /\ inputs \in [1..1 -> Paths]
  /\ accuracy_threshold \in Thresholds
  /\ max_retries \in 0..MaxRetries
  /\ max_workers = 1
  /\ bpc = "direct"
  /\ submitted = 1
  /\ \E m \in MaxSides : fp = [i \in Files |-> [Frame("pending") EXCEPT !.max_side = m]]
  /\ results = << >>
  /\ order = << >>
  /\ summary_writes = 0
  /\ disk = << >>
  /\ collector = NoCollector
  /\ pytesseract \in Recognizers
  /\ gs = NoSummaryCall
  /\ recon = NoReconstruction
  /\ rescale = NoRescale

\* ------------------------------------------------------------ process_file
\* Entry: _ensure_dirs, classification, the unsupported return.
Begin(i) ==
  /\ fp[i].pc = "pending"
  /\ \/ /\ fp' = [fp EXCEPT ![i] = Raise(i, "mkdir")]
     \/ LET ft == detect_file_type(inputs[i]) IN
        fp' = [fp EXCEPT ![i] =
                 IF ft = "unsupported"
                 THEN [Return(i, UnsupportedResult(inputs[i], ft)) EXCEPT !.ft = ft]
                 ELSE [@ EXCEPT !.pc = "rasterizing", !.ft = ft]]
  /\ UNCHANGED << config, bpc, submitted, results, order, summary_writes, disk >>

\* Faulty variant: the loop steps over every other page.
NextPageSkipping(f) ==
  IF f.page_idx < f.page_count
  THEN [f EXCEPT !.page_idx = @ + 2, !.attempt = 0, !.rec = None,
                 !.last_err = None, !.calls = 0, !.plog = << >>,
                 !.pc = "recognizing"]
  ELSE [f EXCEPT !.attempt = 0, !.rec = None, !.last_err = None,
                 !.calls = 0, !.plog = << >>, !.pc = "aggregating"]

\* The page loop's header: the next page's locals, or the end of the loop
\* (attempt, text/data/hocr_bytes and last_err are dead after the loop).
NextPage(f) ==
  IF f.page_idx < f.page_count
  THEN [f EXCEPT !.page_idx = @ + 1, !.attempt = 0, !.rec = None,
                 !.last_err = None, !.calls = 0, !.plog = << >>,
                 !.pc = "recognizing"]
  ELSE [f EXCEPT !.attempt = 0, !.rec = None, !.last_err = None,
                 !.calls = 0, !.plog = << >>, !.pc = "aggregating"]

\* The longest document the rasterizer is given.
PageBound == IF bpc = "direct" THEN MaxPages ELSE MaxBatchPages

\* _pdf_to_images / Image.open: n images, or an exception.
Rasterize(i) ==
  /\ fp[i].pc = "rasterizing"
  /\ \/ fp' = [fp EXCEPT ![i] = Raise(i, "raster")]
     \/ \E n \in 0..PageBound :
          /\ fp[i].ft = "image" => n = 1
          /\ fp' = [fp EXCEPT ![i] = NextPage([@ EXCEPT !.page_count = n])]
  /\ UNCHANGED << config, bpc, submitted, results, order, summary_writes, disk >>

\* Faulty variant: every attempt uses the first attempt's segmentation mode.
PsmAlwaysFirst(attempt) == 6

\* psm=6 if attempt == 1 else 3
Psm(attempt) == IF attempt = 1 THEN 6 ELSE 3

\* max_side if attempt == 1 else max_side * 1.25, in quarters of a pixel.
SideBudget(attempt, max_side) == IF attempt = 1 THEN 4 * max_side ELSE 5 * max_side

\* What attempt number attempt hands to _rescale_image and, when it gets
\* that far (called = 1), to _ocr_image.
AttemptParams(attempt, max_side, called) ==
  [ attempt |-> attempt, budget |-> SideBudget(attempt, max_side),
    psm |-> IF called = 1 THEN Some(Psm(attempt)) ELSE None,
    oem |-> IF called = 1 THEN Some(Oem) ELSE None ]

\* The except branch of an attempt: last_err names the page and the attempt.
AttemptFailed(f, called) ==
  [f EXCEPT !.attempt = @ + 1,
            !.calls = @ + called,
            !.ncalls = @ + called,
            !.plog = Append(@, AttemptParams(f.attempt + 1, f.max_side, called)),
            !.last_err = Some(Err("page", f.page_idx, f.attempt + 1))]

\* _ocr_image returned: the loop breaks.
AttemptSucceeded(f, o) ==
  [f EXCEPT !.attempt = @ + 1, !.calls = @ + 1, !.ncalls = @ + 1,
            !.rec = Some(o),
            !.plog = Append(@, AttemptParams(f.attempt + 1, f.max_side, 1)),
            !.rlog = Append(@, Some(o)), !.pc = "record"]

\* One iteration of the retry loop.  Everything in the try block may raise:
\* _rescale_image (then _ocr_image is not called) or _ocr_image, which always
\* raises when pytesseract is None.
Attempt(i) ==
  /\ fp[i].pc = "recognizing"
  /\ RetryAllowed(fp[i].attempt, max_retries)
  /\ \/ /\ pytesseract # "None"
        /\ \E o \in RecOutcomes : fp' = [fp EXCEPT ![i] = AttemptSucceeded(@, o)]
     \/ fp' = [fp EXCEPT ![i] = AttemptFailed(@, 1)]
     \/ fp' = [fp EXCEPT ![i] = AttemptFailed(@, 0)]
  /\ UNCHANGED << config, bpc, submitted, results, order, summary_writes, disk >>

\* The while condition is false: the attempts are used up.
LoopExit(i) ==
  /\ fp[i].pc = "recognizing"
  /\ ~RetryAllowed(fp[i].attempt, max_retries)
  /\ fp' = [fp EXCEPT ![i] = [@ EXCEPT !.pc = "record", !.rlog = Append(@, None)]]
  /\ UNCHANGED << config, bpc, submitted, results, order, summary_writes, disk >>

\* Faulty variant: a failed page is skipped without a placeholder.
FailedPageSkipped(f) ==
  NextPage([f EXCEPT
    !.errors = Append(@, IF f.last_err # None THEN f.last_err[1]
                         ELSE Err("page_ocr_failed", f.page_idx, 0)),
    !.page_status = Append(@, "failed")])

\* Faulty variant: a failed page adds no confidence to the mean.
FailedPageNoAccuracy(f) ==
  NextPage([f EXCEPT
    !.errors = Append(@, IF f.last_err # None THEN f.last_err[1]
                         ELSE Err("page_ocr_failed", f.page_idx, 0)),
    !.page_texts = Append(@, FailedPageText),
    !.page_status = Append(@, "failed")])

\* The page's outcome appended to the per-page lists.
FailedPage(f) ==
  NextPage([f EXCEPT
    !.errors = Append(@, IF f.last_err # None THEN f.last_err[1]
                         ELSE Err("page_ocr_failed", f.page_idx, 0)),
    !.page_texts = Append(@, FailedPageText),
    !.page_accuracies = Append(@, FailedPageAccuracy),
    !.page_status = Append(@, "failed")])

\* Faulty variant: the layout path of a saved page is not kept.
SavedPageNoPath(f, hocr_path) ==
  NextPage([f EXCEPT
    !.page_accuracies = Append(@, PageAccuracy(f.rec[1])),
    !.page_texts = Append(@, f.rec[1].text),
    !.page_status = Append(@, "success")])

SavedPage(f, hocr_path) ==
  NextPage([f EXCEPT
    !.hocr_paths = Append(@, hocr_path),
    !.page_accuracies = Append(@, PageAccuracy(f.rec[1])),
    !.page_texts = Append(@, f.rec[1].text),
    !.page_status = Append(@, "success")])

RecordPage(i) ==
  /\ fp[i].pc = "record"
  /\ \/ /\ fp[i].rec = None
        /\ fp' = [fp EXCEPT ![i] = FailedPage(@)]
        /\ disk' = disk
     \/ /\ fp[i].rec # None
        /\ LET hocr_path == HocrPath(inputs[i], fp[i].page_idx) IN
           /\ fp' = [fp EXCEPT ![i] = SavedPage(@, hocr_path)]
           /\ disk' = Put(disk, hocr_path, "hocr")
     \/ /\ fp[i].rec # None
        /\ fp' = [fp EXCEPT ![i] = Raise(i, "hocr_io")]
        /\ disk' = disk
  /\ UNCHANGED << config, bpc, submitted, results, order, summary_writes >>

\* Faulty variant: the sub-threshold message is put before the page errors.
FinalErrorsFirst(errors, status) ==
  IF status = "low_accuracy" THEN <<Err("low_accuracy", 0, 0)>> \o errors ELSE errors

\* The errors list of the result: the sub-threshold message comes last.
FinalErrors(errors, status) ==
  IF status = "low_accuracy" THEN Append(errors, Err("low_accuracy", 0, 0)) ELSE errors

BuildResult(path, f, threshold) ==
  LET avg_acc == MeanAccuracy(f.page_accuracies)
      status == StatusOf(avg_acc, threshold) IN
  [ original_filename |-> BaseName(path), file_type |-> f.ft, status |-> status,
    text_output_path |-> Some(TextPath(path)), hocr_paths |-> f.hocr_paths,
    accuracy |-> avg_acc, page_count |-> f.page_count,
    errors |-> FinalErrors(f.errors, status) ]

\* Combined text written, mean and status computed, the result built.
Aggregate(i) ==
  /\ fp[i].pc = "aggregating"
  /\ \/ /\ disk' = Put(disk, TextPath(inputs[i]), CombineLines(fp[i].page_texts))
        /\ fp' = [fp EXCEPT ![i] =
                    [@ EXCEPT !.pc = "report",
                              !.result = Some(BuildResult(inputs[i], fp[i], accuracy_threshold))]]
     \/ /\ fp' = [fp EXCEPT ![i] = Raise(i, "text_io")]
        /\ disk' = disk
  /\ UNCHANGED << config, bpc, submitted, results, order, summary_writes >>

\* The per-file report written and the result returned.
Report(i) ==
  /\ fp[i].pc = "report"
  /\ \/ /\ disk' = Put(disk, ReportPath(inputs[i]), fp[i].result[1])
        /\ fp' = [fp EXCEPT ![i] = Return(i, fp[i].result[1])]
     \/ /\ fp' = [fp EXCEPT ![i] = Raise(i, "report_io")]
        /\ disk' = disk
  /\ UNCHANGED << config, bpc, submitted, results, order, summary_writes >>

\* ----------------------------------------------------------- process_files
EnsureDirs ==
  /\ bpc = "start"
  /\ bpc' \in {"submitting", "raised"}
  /\ UNCHANGED << config, submitted, fp, results, order, summary_writes, disk >>

\* ex.submit for the next input.
Submit ==
  /\ bpc = "submitting"
  /\ submitted < Len(inputs)
  /\ submitted' = submitted + 1
  /\ fp' = [fp EXCEPT ![submitted + 1] = [@ EXCEPT !.pc = "queued"]]
  /\ UNCHANGED << config, bpc, results, order, summary_writes, disk >>

\* futs is built: as_completed starts.
AsCompleted ==
  /\ bpc = "submitting"
  /\ submitted = Len(inputs)
  /\ bpc' = "collecting"
  /\ UNCHANGED << config, submitted, fp, results, order, summary_writes, disk >>

\* Faulty variant: a thread takes a work item while it still runs another.
AllWorkers(frames, workers) == 1..workers

\* The threads of the pool that run no call: at most max_workers threads
\* exist, and each runs one work item at a time, to its end.
IdleWorkers(frames, workers) ==
  {w \in 1..workers :
     \A j \in DOMAIN frames :
       frames[j].pc \notin {"unsubmitted", "queued", "done", "raised"} =>
         frames[j].worker # w}

\* A pool thread takes the oldest queued work item (threads are
\* interchangeable: the idle thread with the least number takes it).
Start(i) ==
  /\ bpc \in {"submitting", "collecting"}
  /\ fp[i].pc = "queued"
  /\ \A j \in Files : fp[j].pc = "queued" => i <= j
  /\ \E w \in IdleWorkers(fp, max_workers) :
       /\ \A v \in IdleWorkers(fp, max_workers) : w <= v
       /\ fp' = [fp EXCEPT ![i] = [@ EXCEPT !.pc = "pending", !.worker = w]]
  /\ UNCHANGED << config, bpc, submitted, results, order, summary_writes, disk >>

\* Faulty variant: a future that raised leaves no record.
CollectedDropRaised(f) ==
  IF f.pc = "done" THEN <<f.result[1]>> ELSE << >>

\* What the as_completed loop appends for a finished future.
Collected(f) ==
  IF f.pc = "done" THEN <<f.result[1]>> ELSE <<SyntheticFailed(f.exc)>>

Collect(i) ==
  /\ bpc = "collecting"
  /\ Finished(i)
  /\ \A n \in 1..Len(order) : order[n] # i
  /\ results' = results \o Collected(fp[i])
  /\ order' = Append(order, i)
  /\ UNCHANGED << config, bpc, submitted, fp, summary_writes, disk >>

\* Faulty variant: the loop over the futures stops at the first one yielded.
FirstYielded(yielded, paths) == Len(yielded) >= 1 \/ Len(paths) = 0

\* as_completed is exhausted: every future of futs was yielded.
AllYielded(yielded, paths) == Len(yielded) = Len(paths)

\* Every future was yielded; the pool is shut down; the summary is written.
WriteSummary ==
  /\ bpc = "collecting"
  /\ AllYielded(order, inputs)
  /\ \/ /\ disk' = Put(disk, SummaryPath, results)
        /\ summary_writes' = summary_writes + 1
        /\ bpc' = "returned"
     \/ /\ bpc' = "raised"
        /\ UNCHANGED << disk, summary_writes >>
  /\ UNCHANGED << config, submitted, fp, results, order >>

FileNext ==
  \/ \E i \in Files : Begin(i)
  \/ \E i \in Files : Rasterize(i)
  \/ \E i \in Files : Attempt(i)
  \/ \E i \in Files : LoopExit(i)
  \/ \E i \in Files : RecordPage(i)
  \/ \E i \in Files : Aggregate(i)
  \/ \E i \in Files : Report(i)

Next ==
  \/ EnsureDirs
  \/ Submit
  \/ AsCompleted
  \/ \E i \in Files : Start(i)
  \/ \E i \in Files : Collect(i)
  \/ WriteSummary
  \/ FileNext

Spec == Init /\ [][Next]_vars

SpecFile == InitFile /\ [][FileNext]_vars

\* The batch when every call made returns or raises and the pool's threads
\* and the calling thread keep running: a step that can be taken is taken.
FairSpec == Init /\ [][Next]_vars /\ WF_vars(Next)

\* ----------------------------------------------------- collect_input_files
\* A file system node: a regular file, a directory with its entries in the
\* order the file system lists them, or a path that does not exist.
Name(stem, ext) == [stem |-> stem, ext |-> ext]

FileNames ==
  { Name("a", ".pdf"), Name("a", ".PNG"), Name("b", ".gif"), Name("c", ".docx") }

FileNode(n) == [kind |-> "file", name |-> n, children |-> << >>]
DirNode(n, c) == [kind |-> "dir", name |-> n, children |-> c]
Missing == [kind |-> "missing", name |-> Name("nope", ""), children |-> << >>]

\* The entries of one directory have distinct names.
DistinctNames(c) == \A m, n \in 1..Len(c) : c[m].name = c[n].name => m = n

Listings(nodes) ==
  { c \in UNION {[1..k -> nodes] : k \in 0..MaxEntries} : DistinctNames(c) }

FileNodes == {FileNode(n) : n \in FileNames}
SubDirs == {DirNode(Name("s", ".pdf"), c) : c \in Listings(FileNodes)}
TopDirs == {DirNode(Name("in", ""), c) : c \in Listings(FileNodes \cup SubDirs)}
Targets == FileNodes \cup TopDirs \cup {Missing}

\* exts of collect_input_files.
CollectExts == {".pdf", ".jpg", ".jpeg", ".png", ".tif", ".tiff", ".bmp"}

\* p.glob("*"): the entries of the directory at path prefix.
Glob(prefix, children) ==
  [k \in 1..Len(children) |->
     [path |-> Append(prefix, children[k].name), node |-> children[k]]]

\* p.rglob("*"): the entries of the directory and of its subdirectories.
RECURSIVE RGlob(_, _)
RGlob(prefix, children) ==
  IF children = << >> THEN << >>
  ELSE LET c == Head(children)
           here == Append(prefix, c.name) IN
       <<[path |-> here, node |-> c]>> \o RGlob(here, c.children)
         \o RGlob(prefix, Tail(children))

\* fp.is_file() and fp.suffix.lower() in exts
Accepted(e) == e.node.kind = "file" /\ Lower(e.node.name.ext) \in CollectExts

EntryPaths(es) == [k \in 1..Len(es) |-> es[k].path]

collect_input_files(p, recursive) ==
  IF p.kind = "file" THEN << <<p.name>> >>
  ELSE IF p.kind # "dir" THEN << >>
  ELSE IF recursive
  THEN EntryPaths(SelectSeq(RGlob(<<p.name>>, p.children), Accepted))
  ELSE EntryPaths(SelectSeq(Glob(<<p.name>>, p.children), Accepted))

InitCollect ==
  /\ collector \in [input_path : {Some(p) : p \in Targets}, recursive : BOOLEAN,
                     files : {None}]
  /\ pytesseract = "module"
  /\ gs = NoSummaryCall
  /\ recon = NoReconstruction
  /\ rescale = NoRescale
  /\ inputs = << >>
  /\ accuracy_threshold = DefaultThreshold
  /\ max_retries = DefaultMaxRetries
  /\ max_workers = 1
  /\ bpc = "collect"
  /\ submitted = 0
  /\ fp = << >>
  /\ results = << >>
  /\ order = << >>
  /\ summary_writes = 0
  /\ disk = << >>

\* The call returns its list.
CollectInputFiles ==
  /\ collector.files = None
  /\ collector.input_path # None
  /\ collector' = [collector EXCEPT
                     !.files = Some(collect_input_files(collector.input_path[1],
                                                        collector.recursive))]
  /\ UNCHANGED << inputs, accuracy_threshold, max_retries, max_workers, bpc,
                  submitted, fp, results, order, summary_writes, disk, pytesseract,
                  gs, recon, rescale >>

SpecCollect == InitCollect /\ [][CollectInputFiles]_vars

\* ----------------------------------------------------------- summary_quality
\* A string is a sequence of pieces; a piece is a run of w characters of one
\* kind: filler characters (pairwise different), a keyword of one of the three
\* word lists, a connective or time/cause word, a sentence terminator, white
\* space, or one character repeated.
Piece(tag, w) == [tag |-> tag, w |-> w]

Widths(s) == [k \in 1..Len(s) |-> s[k].w]

\* len(s)
StrLen(s) == SumSeq(Widths(s))

\* A piece cut after k characters: a keyword cut short is no keyword.
Cut(piece, k) ==
  IF piece.tag \in {"fill", "space", "rep"} THEN Piece(piece.tag, k) ELSE Piece("fill", k)

\* s[:k]
RECURSIVE Slice(_, _)
Slice(s, k) ==
  IF s = << >> \/ k <= 0 THEN << >>
  ELSE IF Head(s).w <= k THEN <<Head(s)>> \o Slice(Tail(s), k - Head(s).w)
  ELSE <<Cut(Head(s), k)>>

\* s.strip()
RECURSIVE LStrip(_)
LStrip(s) ==
  IF s # << >> /\ Head(s).tag = "space" THEN LStrip(Tail(s)) ELSE s

RECURSIVE RStrip(_)
RStrip(s) ==
  IF s # << >> /\ s[Len(s)].tag = "space" THEN RStrip(SubSeq(s, 1, Len(s) - 1)) ELSE s

Strip(s) == RStrip(LStrip(s))

\* re.sub(r"\s+", " ", s)
CollapseSpace(s) ==
  [k \in 1..Len(s) |-> IF s[k].tag = "space" THEN Piece("space", 1) ELSE s[k]]

\* any(k in summary for k in the word list)
HasTag(s, tag) == \E k \in 1..Len(s) : s[k].tag = tag

\* The pieces of re.split(r"[。！？!?]", summary) that are not blank.
RECURSIVE Sentences(_, _)
Sentences(s, open) ==
  IF s = << >> THEN (IF open THEN 1 ELSE 0)
  ELSE IF Head(s).tag = "stop" THEN (IF open THEN 1 ELSE 0) + Sentences(Tail(s), FALSE)
  ELSE Sentences(Tail(s), open \/ Head(s).tag # "space")

\* The pairs re.findall(r"(..)", summary) takes from a run of one repeated
\* character that starts at offset from and ends before offset to.
PairsIn(from, to) ==
  LET n == (to \div 2) - ((from + 1) \div 2) IN IF n > 0 THEN n ELSE 0

RECURSIVE RepeatedPairs(_, _)
RepeatedPairs(s, offset) ==
  IF s = << >> THEN 0
  ELSE (IF Head(s).tag = "rep" THEN PairsIn(offset, offset + Head(s).w) ELSE 0)
         + RepeatedPairs(Tail(s), offset + Head(s).w)

\* c.most_common(1)[0][1] if c else 0
MostCommonPair(s) ==
  LET r == RepeatedPairs(s, 0) IN
  IF r > 0 THEN r ELSE IF StrLen(s) >= 2 THEN 1 ELSE 0

Max(a, b) == IF a >= b THEN a ELSE b

LengthBelow == 180
LengthAbove == 150
MinSentences == 3
PairFloor == 8
PairDivisor == 60
BlurbChars == 600
BlurbReserve == 160
DefaultTargetChars == 500

_length_ok(summary, target) ==
  LET n == StrLen(summary) IN target - LengthBelow <= n /\ n <= target + LengthAbove

_has_keywords(summary) ==
  HasTag(summary, "conflict") /\ HasTag(summary, "relation") /\ HasTag(summary, "event")

_coherence_ok(summary) ==
  IF Sentences(summary, FALSE) < MinSentences THEN FALSE ELSE HasTag(summary, "link")

_repetition_ok(summary) ==
  MostCommonPair(summary) <= Max(PairFloor, StrLen(summary) \div PairDivisor)

\* The verdict of validate_summary (the first component of its result).
validate_summary(text, summary, target_chars) ==
  /\ summary # << >>
  /\ _length_ok(summary, target_chars)
  /\ _has_keywords(summary)
  /\ _coherence_ok(summary)
  /\ _repetition_ok(summary)

\* The template of _structured_fallback around the name and the blurb.
TemplateHead == <<Piece("fill", 5)>>

TemplateBody ==
  << Piece("fill", 16), Piece("stop", 1), Piece("relation", 2), Piece("fill", 43),
     Piece("stop", 1), Piece("fill", 7), Piece("conflict", 2), Piece("fill", 27),
     Piece("event", 2), Piece("fill", 9), Piece("stop", 1), Piece("fill", 45),
     Piece("stop", 1), Piece("fill", 7) >>

\* title or "该剧本"
DefaultName == <<Piece("fill", 3)>>

_structured_fallback(text, name, target_chars) ==
  LET blurb == CollapseSpace(Strip(Slice(text, BlurbChars)))
      template == Strip(TemplateHead \o name \o TemplateBody
                          \o Slice(blurb, Max(0, target_chars - BlurbReserve))) IN
  IF StrLen(template) > target_chars THEN Slice(template, target_chars) ELSE template

\* The building blocks of the texts: a plain sentence, a sentence opening
\* with a connective, a sentence opening with one keyword of each list, a
\* run of one repeated character, white space.
Segments ==
  { <<Piece("fill", 149), Piece("stop", 1)>>,
    <<Piece("link", 2), Piece("fill", 147), Piece("stop", 1)>>,
    <<Piece("relation", 2), Piece("conflict", 2), Piece("event", 2),
      Piece("fill", 143), Piece("stop", 1)>>,
    <<Piece("rep", 41)>>,
    <<Piece("space", 3)>> }

Texts == {Flatten(ss) : ss \in UNION {[1..k -> Segments] : k \in 0..MaxSegments}}

Titles == {<< >>, <<Piece("conflict", 2), Piece("fill", 2)>>}

TargetChars == {DefaultTargetChars - 300, DefaultTargetChars}

\* What uni.summarize_text may return.
SummarizerOutputs ==
  { << >>,
    <<Piece("fill", 149), Piece("stop", 1), Piece("fill", 149), Piece("stop", 1),
      Piece("fill", 149), Piece("stop", 1)>>,
    <<Piece("relation", 2), Piece("conflict", 2), Piece("event", 2), Piece("fill", 143),
      Piece("stop", 1), Piece("link", 2), Piece("fill", 147), Piece("stop", 1),
      Piece("fill", 149), Piece("stop", 1)>>,
    <<Piece("relation", 2), Piece("conflict", 2), Piece("event", 2), Piece("link", 2),
      Piece("fill", 41), Piece("stop", 1), Piece("fill", 49), Piece("stop", 1),
      Piece("fill", 49), Piece("stop", 1)>> }

InitSummary ==
  /\ gs \in [ pc : {"start"}, text : Texts, title : Titles, target_chars : TargetChars,
             uni : {"module", "None"}, summary : {<< >>}, summary2 : {<< >>},
             ret : {<< >>}, exit : {0} ]
  /\ collector = NoCollector
  /\ recon = NoReconstruction
  /\ rescale = NoRescale
  /\ pytesseract = "module"
  /\ inputs = << >>
  /\ accuracy_threshold = DefaultThreshold
  /\ max_retries = DefaultMaxRetries
  /\ max_workers = 1
  /\ bpc = "summary"
  /\ submitted = 0
  /\ fp = << >>
  /\ results = << >>
  /\ order = << >>
  /\ summary_writes = 0
  /\ disk = << >>

PipelineUnchanged ==
  UNCHANGED << inputs, accuracy_threshold, max_retries, max_workers, bpc, submitted,
               fp, results, order, summary_writes, disk, collector, pytesseract,
               recon, rescale >>

\* (text[:target_chars]).strip()
Truncated(text, target_chars) == Strip(Slice(text, target_chars))

\* The first summary: the summarizer's, or the truncated text when the
\* summarizer is missing or raises.
FirstSummary ==
  /\ gs.pc = "start"
  /\ \/ /\ gs.uni = "module"
        /\ \E out \in SummarizerOutputs : gs' = [gs EXCEPT !.summary = out, !.pc = "validate"]
     \/ gs' = [gs EXCEPT !.summary = Truncated(gs.text, gs.target_chars), !.pc = "validate"]
  /\ PipelineUnchanged

\* The first validation: return the summary or go on to the retry.
FirstValidation ==
  /\ gs.pc = "validate"
  /\ gs' = IF validate_summary(gs.text, gs.summary, gs.target_chars)
           THEN [gs EXCEPT !.pc = "returned", !.ret = gs.summary, !.exit = 1]
           ELSE [gs EXCEPT !.pc = "retry"]
  /\ PipelineUnchanged

\* The retry with the longer target; the first summary again when the
\* summarizer is missing or raises.
RetrySummary ==
  /\ gs.pc = "retry"
  /\ \/ /\ gs.uni = "module"
        /\ \E out \in SummarizerOutputs : gs' = [gs EXCEPT !.summary2 = out, !.pc = "validate2"]
     \/ gs' = [gs EXCEPT !.summary2 = gs.summary, !.pc = "validate2"]
  /\ PipelineUnchanged

SecondValidation ==
  /\ gs.pc = "validate2"
  /\ gs' = IF validate_summary(gs.text, gs.summary2, gs.target_chars)
           THEN [gs EXCEPT !.pc = "returned", !.ret = gs.summary2, !.exit = 2]
           ELSE [gs EXCEPT !.pc = "fallback"]
  /\ PipelineUnchanged

\* The name the fallback uses: extract_title's choice, or the title or the
\* default name when the summarizer module is missing.
FallbackNames ==
  IF gs.uni = "module" THEN Titles \cup {DefaultName}
  ELSE {IF gs.title # << >> THEN gs.title ELSE DefaultName}

StructuredFallback ==
  /\ gs.pc = "fallback"
  /\ \E name \in FallbackNames :
       gs' = [gs EXCEPT !.pc = "returned", !.exit = 3,
                        !.ret = _structured_fallback(gs.text, name, gs.target_chars)]
  /\ PipelineUnchanged

SummaryNext ==
  \/ FirstSummary
  \/ FirstValidation
  \/ RetrySummary
  \/ SecondValidation
  \/ StructuredFallback

SpecSummary == InitSummary /\ [][SummaryNext]_vars

\* ------------------------------------------------- _ocr_image: text lines
\* One row of the recognizer's token data.
Token(word, block, par, line) ==
  [text |-> word, block_num |-> block, par_num |-> par, line_num |-> line]

\* not word or word.strip() == ""
Blank(word) == word \in {"", " "}

Triple(t) == <<t.block_num, t.par_num, t.line_num>>

\* sep.join(parts), as the sequence of the parts and the separators.
RECURSIVE Join(_, _)
Join(parts, sep) ==
  IF parts = << >> THEN << >>
  ELSE IF Len(parts) = 1 THEN Head(parts)
  ELSE Head(parts) \o <<sep>> \o Join(Tail(parts), sep)

\* " ".join(line_buf)
JoinWords(line_buf) == Join([k \in 1..Len(line_buf) |-> <<line_buf[k]>>], " ")

\* Faulty variant: every change of the triple starts a paragraph.
AlwaysParagraph(prev, triple) == prev # None

\* prev_par is not None and par != prev_par
ParagraphChanged(prev, triple) == prev # None /\ prev[1][2] # triple[2]

\* The loop over the rows from row i on, and the flush after it.
RECURSIVE ReconstructFrom(_, _, _, _, _)
ReconstructFrom(data, i, prev, line_buf, text_lines) ==
  IF i > Len(data)
  THEN (IF line_buf # << >> THEN Append(text_lines, JoinWords(line_buf)) ELSE text_lines)
  ELSE IF Blank(data[i].text)
  THEN ReconstructFrom(data, i + 1, prev, line_buf, text_lines)
  ELSE LET triple == Triple(data[i])
           changed == prev = None \/ prev[1] # triple
           flushed == IF changed /\ line_buf # << >>
                      THEN Append(text_lines, JoinWords(line_buf)) ELSE text_lines
           broken == IF changed /\ ParagraphChanged(prev, triple)
                     THEN Append(flushed, << >>) ELSE flushed IN
       ReconstructFrom(data, i + 1, Some(triple),
                       Append(IF changed THEN << >> ELSE line_buf, data[i].text),
                       broken)

\* text = "\n".join(text_lines)
Reconstruct(data) == Join(ReconstructFrom(data, 1, None, << >>, << >>), "\n")

Words == {"a", "b", ""}
Ids == {1, 2}

TokenData ==
  UNION { [1..n -> {Token(w, b, p, l) : w \in Words, b \in Ids, p \in Ids, l \in Ids}]
          : n \in 0..MaxTokens }

InitReconstruct ==
  /\ recon \in [data : TokenData, text : {None}]
  /\ rescale = NoRescale
  /\ gs = NoSummaryCall
  /\ collector = NoCollector
  /\ pytesseract = "module"
  /\ inputs = << >>
  /\ accuracy_threshold = DefaultThreshold
  /\ max_retries = DefaultMaxRetries
  /\ max_workers = 1
  /\ bpc = "reconstruct"
  /\ submitted = 0
  /\ fp = << >>
  /\ results = << >>
  /\ order = << >>
  /\ summary_writes = 0
  /\ disk = << >>

\* The text is reconstructed from the token data.
ReconstructText ==
  /\ recon.text = None
  /\ recon' = [recon EXCEPT !.text = Some(Reconstruct(recon.data))]
  /\ UNCHANGED << inputs, accuracy_threshold, max_retries, max_workers, bpc,
                  submitted, fp, results, order, summary_writes, disk, collector,
                  pytesseract, gs, rescale >>

SpecReconstruct == InitReconstruct /\ [][ReconstructText]_vars

\* --------------------------------------------------------- _rescale_image
\* Binary floating point, as Python's float: DoubleBits significant bits,
\* round to nearest, ties to even.  A bit string is most significant first.
DoubleBits == 53

Zeros(n) == [k \in 1..n |-> 0]

RECURSIVE ToBits(_)
ToBits(n) == IF n = 0 THEN << >> ELSE Append(ToBits(n \div 2), n % 2)

RECURSIVE FromBits(_)
FromBits(bits) ==
  IF bits = << >> THEN 0
  ELSE 2 * FromBits(SubSeq(bits, 1, Len(bits) - 1)) + bits[Len(bits)]

\* bits + 1
RECURSIVE Inc(_)
Inc(bits) ==
  IF bits = << >> THEN <<1>>
  ELSE IF bits[Len(bits)] = 0 THEN [bits EXCEPT ![Len(bits)] = 1]
  ELSE Append(Inc(SubSeq(bits, 1, Len(bits) - 1)), 0)

\* The bit string rounded to its p leading bits (the rest becomes zeros).
RoundBits(bits, p) ==
  IF Len(bits) <= p THEN bits
  ELSE LET top == SubSeq(bits, 1, p)
           sticky == \E k \in (p + 2)..Len(bits) : bits[k] = 1
           up == bits[p + 1] = 1 /\ (sticky \/ top[p] = 1) IN
       (IF up THEN Inc(top) ELSE top) \o Zeros(Len(bits) - p)

\* n * bits for a small natural n: the bits from place k down are done, with
\* the carry into place k and the product's bits acc below it.
RECURSIVE MulSmall(_, _, _, _, _)
MulSmall(bits, n, k, carry, acc) ==
  IF k = 0 THEN ToBits(carry) \o acc
  ELSE MulSmall(bits, n, k - 1, (n * bits[k] + carry) \div 2,
                <<(n * bits[k] + carry) % 2>> \o acc)

\* The next count bits of the quotient of r / d (r < d) after the bits acc,
\* and what remains.
RECURSIVE QuotientBits(_, _, _, _)
QuotientBits(r, d, count, acc) ==
  IF count = 0 THEN [bits |-> acc, rem |-> r]
  ELSE LET bit == IF 2 * r >= d THEN 1 ELSE 0 IN
       QuotientBits(2 * r - bit * d, d, count - 1, Append(acc, bit))

\* How many places n (0 < n < d) is shifted until 2 * n >= d.
RECURSIVE LeadingShift(_, _)
LeadingShift(n, d) == IF 2 * n >= d THEN 0 ELSE 1 + LeadingShift(2 * n, d)

RECURSIVE Pow2(_)
Pow2(k) == IF k = 0 THEN 1 ELSE 2 * Pow2(k - 1)

\* n / float(d) for 0 < n < d: the mantissa, and the number frac of binary
\* places after the point that its last bit stands at.
FloatDiv(n, d) ==
  LET shift == LeadingShift(n, d)
      q == QuotientBits(n * Pow2(shift), d, DoubleBits, << >>)
      up == \/ 2 * q.rem > d
            \/ 2 * q.rem = d /\ q.bits[DoubleBits] = 1 IN
  [mant |-> IF up THEN Inc(q.bits) ELSE q.bits, frac |-> shift + DoubleBits]

\* int(n * x) for a float x = mant / 2^frac.
IntOfProduct(n, x) ==
  LET exact == MulSmall(x.mant, n, Len(x.mant), 0, << >>)
      rounded == RoundBits(exact, DoubleBits) IN
  IF Len(rounded) <= x.frac THEN 0
  ELSE FromBits(SubSeq(rounded, 1, Len(rounded) - x.frac))

\* The size _rescale_image asks for: scale = min(1.0, max_side / float(max(w,
\* h))), and (int(w * scale), int(h * scale)) when scale < 1.0.  The budget
\* is in quarters of a pixel.
RescaledSize(w, h, budget) ==
  LET longer == IF w >= h THEN w ELSE h IN
  IF budget >= 4 * longer THEN <<w, h>>
  ELSE LET scale == FloatDiv(budget, 4 * longer) IN
       <<IntOfProduct(w, scale), IntOfProduct(h, scale)>>

\* Image sides and budgets of the calls.
Sides == {1, 100, 2400, 2401, 3000, 4231, 4800}
Budgets == {SideBudget(a, m) : a \in 1..MaxAttemptNo, m \in MaxSides}

InitRescale ==
  /\ rescale \in [w : Sides, h : Sides, max_side : Budgets, out : {None}]
  /\ recon = NoReconstruction
  /\ gs = NoSummaryCall
  /\ collector = NoCollector
  /\ pytesseract = "module"
  /\ inputs = << >>
  /\ accuracy_threshold = DefaultThreshold
  /\ max_retries = DefaultMaxRetries
  /\ max_workers = 1
  /\ bpc = "rescale"
  /\ submitted = 0
  /\ fp = << >>
  /\ results = << >>
  /\ order = << >>
  /\ summary_writes = 0
  /\ disk = << >>

\* The call returns the image, resized when it is over the budget
\* (img.resize raises for a side of 0: then there is no result).
RescaleImage ==
  /\ rescale.out = None
  /\ LET size == RescaledSize(rescale.w, rescale.h, rescale.max_side) IN
     /\ size[1] > 0 /\ size[2] > 0
     /\ rescale' = [rescale EXCEPT !.out = Some(size)]
  /\ UNCHANGED << inputs, accuracy_threshold, max_retries, max_workers, bpc,
                  submitted, fp, results, order, summary_writes, disk, collector,
                  pytesseract, gs, recon >>

SpecRescale == InitRescale /\ [][RescaleImage]_vars

\* ------------------------------------------------------------- properties
Statuses == {"success", "low_accuracy", "failed"}

\* C1: when process_files returns, results holds exactly one entry per input
\* path, whichever files raised and in whatever order the workers ran; while
\* collecting, every yielded future has added exactly one entry.
C1_ResultCount ==
  /\ Len(results) = Len(order)
  /\ \A n, m \in 1..Len(order) : order[n] = order[m] => n = m
  /\ bpc = "returned" => Len(results) = Len(inputs)

C1_Witness ==
  /\ bpc = "returned"
  /\ Len(inputs) = 2
  /\ max_workers = 8
  /\ \E i, j \in Files : fp[i].pc = "raised" /\ fp[j].pc = "done"

\* C2: a file whose process_file call raised is recorded by exactly one
\* result, with status failed and the exception's message as its errors; the
\* entry of every other file is the result its own call returned.
C2_RaisedFileIsolated ==
  \A n \in 1..Len(results) :
    LET i == order[n] IN
    /\ fp[i].pc = "raised" =>
         /\ results[n].status = "failed"
         /\ results[n].errors = <<Err(fp[i].exc, 0, 0)>>
    /\ fp[i].pc = "done" => results[n] = fp[i].result[1]
    /\ \A m \in 1..Len(results) : order[m] = i => m = n

C2_Witness ==
  /\ bpc = "returned"
  /\ \E n, m \in 1..Len(results) :
       /\ fp[order[n]].pc = "raised"
       /\ fp[order[n]].exc = "text_io"
       /\ fp[order[m]].pc = "done"
       /\ results[m].status = "success"
       /\ results[m].page_count = 1

\* What _ocr_image returned for page k of invocation f: text and confidence
\* (an empty text and 0 when every attempt on the page failed).
RecognizedText(f, k) == IF f.rlog[k] = None THEN << >> ELSE f.rlog[k][1].text
RecognizedConf(f, k) == IF f.rlog[k] = None THEN 0 ELSE PageAccuracy(f.rlog[k][1])

\* The frame g after the step that records page f.page_idx as failed.
C3_Recorded(f, g) ==
  LET i == f.page_idx IN
  /\ Len(g.page_texts) = i /\ g.page_texts[i] = << >>
  /\ Len(g.page_accuracies) = i /\ g.page_accuracies[i] = 0
  /\ Len(g.page_status) = i /\ g.page_status[i] = "failed"
  /\ IF i < f.page_count
     THEN g.pc = "recognizing" /\ g.page_idx = i + 1
     ELSE g.pc = "aggregating"

\* One step of invocation i, seen from a failed page and from aggregation.
C3_Step(i) ==
  LET f == fp[i]
      g == fp'[i] IN
  /\ (f.pc = "record" /\ f.rec = None /\ g # f) => C3_Recorded(f, g)
  /\ (f.pc = "aggregating" /\ g.pc = "report") =>
       /\ g.result[1].status \in {"success", "low_accuracy"}
       /\ \A k \in 1..f.page_count :
            f.page_status[k] = "failed" =>
              f.page_texts[k] = << >> /\ f.page_accuracies[k] = 0

\* C3: when every attempt on page i failed, the step that records the page
\* puts an empty text and confidence 0 at position i of the per-page lists
\* and moves on to page i+1, or to aggregation after the last page; and the
\* result built for a file with failed pages does not have status failed.
C3_FailedPageNotFatal == [][\A i \in Files : C3_Step(i)]_vars

C3_Witness ==
  \E i \in Files :
    /\ fp[i].pc = "report"
    /\ fp[i].page_count = 2
    /\ fp[i].page_status = <<"failed", "success">>
    /\ fp[i].result[1].status = "low_accuracy"

\* C4 as stated: every recorded page had at least one recognizer call, and a
\* page is recorded as failed only after max_retries + 1 recognizer calls.
C4_Original ==
  \A i \in Files :
    fp[i].pc = "record" =>
      /\ fp[i].calls >= 1
      /\ fp[i].calls <= max_retries + 1
      /\ fp[i].rec = None => fp[i].calls = max_retries + 1

\* Attempts and recognizer calls of the current page of frame f.
C4_State(f) ==
  /\ 0 <= f.calls /\ f.calls <= f.attempt /\ f.attempt <= max_retries + 1
  /\ f.pc = "record" =>
       /\ f.attempt >= 1
       /\ f.rec = None => f.attempt = max_retries + 1
       /\ f.rec # None => f.calls >= 1

\* One step of invocation i: an attempt adds one attempt and at most one
\* call; after the loop has ended nothing more is attempted for the page.
C4_Step(i) ==
  LET f == fp[i]
      g == fp'[i] IN
  /\ C4_State(g)
  /\ (f.pc = "recognizing" /\ g.pc = "recognizing" /\ g # f) =>
       /\ g.attempt = f.attempt + 1
       /\ g.calls \in {f.calls, f.calls + 1}
       /\ g.page_idx = f.page_idx
  /\ (f.pc = "record" /\ g.page_idx = f.page_idx /\ g.pc \in {"recognizing", "record"}) =>
       g = f

\* C4 (amended): for every page between 1 and max_retries + 1 attempts are
\* made, each calling the recognizer at most once (an attempt whose
\* normalization raises calls it not at all); nothing is attempted or called
\* for the page after its first successful call; and a page is recorded as
\* failed only after exactly max_retries + 1 failed attempts.
C4_BoundedAttempts == [][\A i \in Files : C4_Step(i)]_vars

C4_Witness ==
  \E i \in Files :
    /\ fp[i].pc = "record"
    /\ fp[i].rec = None
    /\ fp[i].calls = 0
    /\ fp[i].attempt = max_retries + 1
    /\ max_retries = 2

\* The combined text parsed back: split at the marker lines into the pages'
\* marker numbers and bodies (lines before any marker go to a page 0).
IsMarker(l) == \E k \in 1..Len(MarkerLines) : MarkerLines[k] = l
MarkerNumber(l) == CHOOSE k \in 1..Len(MarkerLines) : MarkerLines[k] = l

RECURSIVE SplitPages(_, _)
SplitPages(lines, acc) ==
  IF lines = << >> THEN acc
  ELSE LET l == Head(lines) IN
       IF IsMarker(l)
       THEN SplitPages(Tail(lines), Append(acc, [page |-> MarkerNumber(l), body |-> << >>]))
       ELSE IF acc = << >>
       THEN SplitPages(Tail(lines), <<[page |-> 0, body |-> <<l>>]>>)
       ELSE SplitPages(Tail(lines), [acc EXCEPT ![Len(acc)].body = Append(@, l)])

\* C5: the combined text of a file with page_count = n holds exactly n
\* marker lines, numbered 1..n in ascending order, and the body after marker
\* i is the text recognized for page i (nothing when the page failed)
\* followed by the blank separator line.
C5_CombinedText ==
  \A i \in Files :
    fp[i].pc = "report" =>
      /\ TextPath(inputs[i]) \in DOMAIN disk
      /\ SplitPages(disk[TextPath(inputs[i])], << >>) =
           [k \in 1..fp[i].page_count |->
              [page |-> k, body |-> RecognizedText(fp[i], k) \o <<"">>]]

C5_Witness ==
  \E i \in Files :
    /\ fp[i].pc = "report"
    /\ fp[i].page_count = 2
    /\ fp[i].page_status = <<"failed", "success">>
    /\ fp[i].page_texts[2] = <<"w1", "", "w2">>

\* C6: the accuracy of a file with at least one page is the sum of the
\* per-page confidences (0 for a failed page) divided by page_count; for a
\* file with no page it is absent.
C6_MeanAccuracy ==
  \A i \in Files :
    fp[i].pc = "report" =>
      LET n == fp[i].page_count
          acc == fp[i].result[1].accuracy
          total == SumSeq([k \in 1..n |-> RecognizedConf(fp[i], k)]) IN
      IF n = 0 THEN acc = None
      ELSE /\ acc # None
           /\ acc[2] > 0
           /\ acc[1] * n = total * acc[2]

C6_Witness ==
  \E i \in Files :
    /\ fp[i].pc = "report"
    /\ fp[i].page_status = <<"success", "failed">>
    /\ fp[i].result[1].accuracy = <<80, 2>>

\* The decision rule on the accuracy a result carries.
C7_Below(r) == r.accuracy[1] < accuracy_threshold * r.accuracy[2]

C7_Rule(r) ==
  /\ r.status \in Statuses
  /\ r.status = "success" <=>
       \/ r.accuracy # None /\ ~C7_Below(r)
       \/ r.accuracy = None /\ r.errors = << >>
  /\ r.status = "low_accuracy" <=> (r.accuracy # None /\ C7_Below(r))

\* C7 as stated: every result follows the decision rule, and a result is
\* failed only for an unsupported type or a rasterization error.
C7_Original ==
  \A n \in 1..Len(results) :
    /\ C7_Rule(results[n])
    /\ results[n].status = "failed" =>
         \/ fp[order[n]].ft = "unsupported"
         \/ fp[order[n]].exc = "raster"

\* C7 (amended): every result has one status of {success, low_accuracy,
\* failed}: success when the accuracy is at least the threshold, or when
\* there is no accuracy and no error (a file without pages); low_accuracy
\* when the accuracy exists and is below the threshold; failed exactly for a
\* file of unsupported type and for a file whose process_file call raised
\* (a rasterization error, or an error creating the output directories or
\* writing an artifact).
C7_StatusRule ==
  \A n \in 1..Len(results) :
    /\ C7_Rule(results[n])
    /\ results[n].status = "failed" <=>
         \/ fp[order[n]].ft = "unsupported"
         \/ fp[order[n]].pc = "raised"

C7_Witness ==
  /\ bpc = "returned"
  /\ \E n, m \in 1..Len(results) :
       /\ results[n].status = "failed"
       /\ fp[order[n]].exc = "hocr_io"
       /\ results[m].status = "success"
       /\ results[m].accuracy = None
       /\ fp[order[m]].ft = "pdf"

\* C8: in every result of a batch, status failed implies that the accuracy
\* is absent or the file type is unsupported, and status low_accuracy
\* implies that the accuracy is present and strictly below the threshold.
C8_StatusAccuracy ==
  \A n \in 1..Len(results) :
    LET r == results[n] IN
    /\ r.status = "failed" => (r.accuracy = None \/ r.file_type = "unsupported")
    /\ r.status = "low_accuracy" =>
         /\ r.accuracy # None
         /\ r.accuracy[2] > 0
         /\ r.accuracy[1] < accuracy_threshold * r.accuracy[2]

C8_Witness ==
  /\ bpc = "returned"
  /\ \E n, m \in 1..Len(results) :
       /\ results[n].status = "failed"
       /\ results[n].file_type = "unsupported"
       /\ fp[order[n]].pc = "done"
       /\ results[m].status = "low_accuracy"
       /\ results[m].accuracy = <<80, 1>>

\* The layout paths of the pages of f whose recognition succeeded, from page
\* k on, in page order.
RECURSIVE RecognizedPaths(_, _, _)
RecognizedPaths(path, f, k) ==
  IF k > Len(f.rlog) THEN << >>
  ELSE (IF f.rlog[k] # None THEN <<HocrPath(path, k)>> ELSE << >>)
         \o RecognizedPaths(path, f, k + 1)

\* C9: layout_paths of a result holds one path per successfully recognized
\* page, in page order, so at most page_count paths, and each of them names
\* an artifact that is on disk once the file is processed.
C9_LayoutPaths ==
  \A i \in Files :
    /\ fp[i].pc = "report" =>
         /\ fp[i].result[1].hocr_paths = RecognizedPaths(inputs[i], fp[i], 1)
         /\ Len(fp[i].rlog) = fp[i].page_count
    /\ (fp[i].pc \in {"report", "done"}) =>
         LET r == fp[i].result[1] IN
         /\ Len(r.hocr_paths) <= r.page_count
         /\ \A n \in 1..Len(r.hocr_paths) : r.hocr_paths[n] \in DOMAIN disk

C9_Witness ==
  \E i \in Files :
    /\ fp[i].pc = "done"
    /\ fp[i].result[1].page_count = 2
    /\ fp[i].result[1].hocr_paths = <<HocrPath(inputs[i], 2)>>

\* C10: a file classified as unsupported is done at once: its result has
\* status failed, page_count 0, no text path, no layout path, no accuracy
\* and one error; nothing was rasterized or recognized and no artifact was
\* written for it.
C10_Unsupported ==
  \A i \in Files :
    fp[i].ft = "unsupported" =>
      /\ fp[i].pc = "done"
      /\ LET r == fp[i].result[1] IN
         /\ r.status = "failed"
         /\ r.page_count = 0
         /\ r.text_output_path = None
         /\ r.hocr_paths = << >>
         /\ r.accuracy = None
         /\ Len(r.errors) = 1
      /\ fp[i].calls = 0 /\ fp[i].rlog = << >>
      /\ \A p \in DOMAIN disk : p.stem # inputs[i].stem

C10_Witness ==
  \E i \in Files :
    /\ fp[i].pc = "done"
    /\ fp[i].ft = "unsupported"
    /\ inputs[i].ext = ".docx"

\* C11: when rasterization of a supported file raises, process_file ends in
\* done with a result of status failed that carries the rasterization
\* error, and nothing was recognized for the file.
C11_RasterFailure ==
  \A i \in Files :
    fp[i].exc = "raster" =>
      /\ fp[i].pc = "done"
      /\ fp[i].result # None
      /\ fp[i].result[1].status = "failed"
      /\ \E n \in 1..Len(fp[i].result[1].errors) :
           fp[i].result[1].errors[n].kind = "raster"
      /\ fp[i].calls = 0 /\ fp[i].rlog = << >>

\* The step that writes the run summary, if this step is one.
C12_WriteStep ==
  summary_writes' # summary_writes =>
    /\ summary_writes' = summary_writes + 1
    /\ bpc = "collecting" /\ bpc' = "returned"
    /\ fp' = fp
    /\ \A i \in Files : Finished(i)
    /\ results' = results
    /\ disk'[SummaryPath] = results

\* C12: the run summary is written at most once in a run and exactly once
\* in a run that returns; the write is a step of process_files itself, taken
\* when every process_file call has finished; and the summary's file list is
\* the returned list, entry by entry in the same order.
C12_SummaryOnce ==
  /\ [](summary_writes <= 1)
  /\ [](summary_writes = 0 => SummaryPath \notin DOMAIN disk)
  /\ [](bpc = "returned" =>
          /\ summary_writes = 1
          /\ disk[SummaryPath] = results
          /\ Len(results) = Len(inputs))
  /\ [][C12_WriteStep]_vars

C12_Witness ==
  /\ bpc = "returned"
  /\ order = <<2, 1>>
  /\ disk[SummaryPath] = results
  /\ results[1].status = "success"
  /\ results[2].status = "failed"

\* The artifact paths a running invocation has written so far: one layout
\* artifact per saved page, and the text artifact once the result is built.
WrittenBy(i) ==
  {fp[i].hocr_paths[n] : n \in 1..Len(fp[i].hocr_paths)}
    \cup (IF fp[i].pc = "report" THEN {TextPath(inputs[i])} ELSE {})

\* C13: in a batch of distinct input paths, two invocations of process_file
\* that are running at the same time have never both written the same
\* artifact path, also when their inputs share the stem and differ in the
\* directory or the extension.
C13_DisjointOutputs ==
  \A i, j \in Files :
    (i # j /\ inputs[i] # inputs[j] /\ Running(i) /\ Running(j)) =>
      WrittenBy(i) \cap WrittenBy(j) = {}

\* C14: no exception leaves process_files: a failure to create the output
\* directories or to write an artifact, in a process_file call or in
\* process_files itself, ends in a synthetic failed record, never in
\* process_files raising.
C14_NoEscape ==
  /\ bpc # "raised"
  /\ \A n \in 1..Len(results) :
       fp[order[n]].pc = "raised" => results[n] = SyntheticFailed(fp[order[n]].exc)

\* C15: for the path of a single existing file, collect_input_files returns
\* the one-element list of that path when the file's extension is in the
\* allowlist, and the empty list when it is not.
C15_SingleFile ==
  (collector.files # None /\ collector.input_path[1].kind = "file") =>
    LET p == collector.input_path[1] IN
    collector.files[1] =
      IF Lower(p.name.ext) \in CollectExts THEN << <<p.name>> >> ELSE << >>

\* Every page of invocation f failed all its attempts.
AllPagesFailed(f) ==
  /\ Len(f.rlog) = f.page_count
  /\ \A k \in 1..f.page_count : f.rlog[k] = None

\* C16 as stated: the result of a file whose every page failed all its
\* attempts has no accuracy.
C16_Original ==
  \A i \in Files :
    (fp[i].pc = "report" /\ AllPagesFailed(fp[i])) =>
      fp[i].result[1].accuracy = None

\* C16 (amended): the result of a file whose every page failed all its
\* attempts has accuracy 0.0 when the file has at least one page; the
\* accuracy is absent only when the file has no page.
C16_AllFailedAccuracy ==
  \A i \in Files :
    (fp[i].pc = "report" /\ AllPagesFailed(fp[i])) =>
      LET acc == fp[i].result[1].accuracy IN
      IF fp[i].page_count = 0 THEN acc = None
      ELSE acc # None /\ acc[2] > 0 /\ acc[1] = 0

C16_Witness ==
  \E i \in Files :
    /\ fp[i].pc = "report"
    /\ fp[i].page_count = 2
    /\ AllPagesFailed(fp[i])
    /\ fp[i].result[1].accuracy = <<0, 2>>

\* C17: every result of a batch carries the basename of the input it was
\* produced for, also when that input's process_file call raised; so the
\* original_filename values of the returned list are the inputs' basenames,
\* with their multiplicities.
C17_Filenames ==
  \A n \in 1..Len(results) :
    results[n].original_filename = BaseName(inputs[order[n]])

\* C18: once process_files has returned, the report reports/<stem>.json of
\* every input exists and holds that input's result, whatever its status.
C18_ReportPerInput ==
  bpc = "returned" =>
    \A n \in 1..Len(results) :
      LET report_path == ReportPath(inputs[order[n]]) IN
      /\ report_path \in DOMAIN disk
      /\ disk[report_path] = results[n]

\* C19: a result with status success has an empty errors list, whatever the
\* accuracy threshold and whichever pages failed.
C19_SuccessNoErrors ==
  \A i \in Files :
    (fp[i].result # None /\ fp[i].result[1].status = "success") =>
      fp[i].result[1].errors = << >>

\* C20: when the recognizer is unavailable the pipeline fails before any
\* file is processed: no file enters rasterization or recognition, and no
\* result is built from per-page attempts.
C20_FailFast ==
  pytesseract = "None" =>
    \A i \in Files :
      /\ fp[i].pc \notin {"rasterizing", "recognizing", "record", "aggregating", "report"}
      /\ fp[i].calls = 0
      /\ fp[i].result # None => fp[i].result[1].page_count = 0

\* C21: whatever the text and the title, the summary generate_summary
\* returns is accepted by validate_summary for the same text and target, on
\* each exit: the first summary, the retried summary, the structured
\* fallback.
C21_ReturnedSummaryValid ==
  gs.pc = "returned" => validate_summary(gs.text, gs.ret, gs.target_chars)

\* C22: on every page, attempt 1 normalizes with the side budget max_side
\* and recognizes with segmentation mode 6; every later attempt normalizes
\* with the budget 1.25 * max_side and recognizes with segmentation mode 3;
\* the engine mode is 3 on every attempt.  (Budgets in quarters of a pixel;
\* an attempt whose normalization raised has no recognizer parameters.)
C22_AttemptParameters ==
  \A i \in Files :
    /\ Len(fp[i].plog) = fp[i].attempt
    /\ \A k \in 1..Len(fp[i].plog) :
         LET a == fp[i].plog[k] IN
         /\ a.attempt = k
         /\ 4 * a.budget = IF k = 1 THEN 16 * fp[i].max_side ELSE 20 * fp[i].max_side
         /\ a.psm # None => a.psm[1] = (IF k = 1 THEN 6 ELSE 3)
         /\ a.oem # None => a.oem[1] = 3
         /\ (a.psm = None) = (a.oem = None)

C22_Witness ==
  \E i \in Files :
    /\ fp[i].pc = "record"
    /\ fp[i].max_side = 1001
    /\ Len(fp[i].plog) = 3
    /\ fp[i].plog[1].psm = <<6>> /\ fp[i].plog[1].budget = 4004
    /\ fp[i].plog[2].psm = None /\ fp[i].plog[2].budget = 5005
    /\ fp[i].plog[3].psm = <<3>> /\ fp[i].plog[3].oem = <<3>>
    /\ fp[i].rec # None

\* C23: at every moment of a batch run at most max_workers process_file
\* calls are in progress, each on a pool thread of its own: a thread runs
\* no second call before its current call has returned or raised.
C23_BoundedWorkers ==
  /\ NumRunning <= max_workers
  /\ \A i \in Files :
       Running(i) =>
         /\ fp[i].worker \in 1..max_workers
         /\ \A j \in Files : (j # i /\ Running(j)) => fp[j].worker # fp[i].worker

\* Two inputs on one worker: the second runs on the thread that ran the
\* first, after the first has raised.
C23_Witness ==
  /\ max_workers = 1
  /\ Len(inputs) = 2
  /\ fp[1].pc = "raised"
  /\ fp[2].pc = "recognizing"
  /\ fp[2].worker = 1

\* One step of invocation i from frame f to frame g, phase by phase
\* (recognizing(page k) is the retry loop and the recording of page k;
\* aggregating ends with the report).
C24_Step(i) ==
  LET f == fp[i]
      g == fp'[i] IN
  g # f =>
    /\ f.pc = "pending" =>
         \/ g.pc = "rasterizing" /\ g.result = None
         \/ g.pc = "done" /\ g.ft = "unsupported"
         \/ g.pc = "raised"
    /\ f.pc = "rasterizing" =>
         \/ g.pc = "recognizing" /\ g.page_idx = 1 /\ g.page_count >= 1
         \/ g.pc = "aggregating" /\ g.page_count = 0
         \/ g.pc = "raised"
    /\ f.pc = "recognizing" =>
         /\ g.pc \in {"recognizing", "record"}
         /\ g.page_idx = f.page_idx
         /\ g.page_status = f.page_status
    /\ f.pc = "record" =>
         \/ /\ g.pc = "recognizing"
            /\ f.page_idx < f.page_count
            /\ g.page_idx = f.page_idx + 1
            /\ Len(g.page_status) = f.page_idx
         \/ /\ g.pc = "aggregating"
            /\ f.page_idx = f.page_count
            /\ Len(g.page_status) = f.page_count
         \/ g.pc = "raised"
    /\ f.pc = "aggregating" =>
         \/ g.pc = "report" /\ f.result = None /\ g.result # None
         \/ g.pc = "raised"
    /\ f.pc = "report" =>
         \/ g.pc = "done" /\ g.result = f.result
         \/ g.pc = "raised"
    /\ f.pc \notin {"done", "raised"}
    /\ g.pc \notin {"report", "done"} => g.result = None

\* C24: an invocation moves through pending, rasterizing, recognizing(page
\* 1), ..., recognizing(page n), aggregating, done in that order: the pages
\* are taken in ascending index, page i's outcome is recorded before page
\* i+1 starts, no earlier phase is entered again, and the status is
\* assigned once (an unsupported file goes from pending to done, and a call
\* that raises stops where it is).
C24_PhaseOrder == [][\A i \in Files : C24_Step(i)]_vars

C24_Witness ==
  \E i \in Files :
    /\ fp[i].pc = "done"
    /\ fp[i].result[1].page_count = 2
    /\ fp[i].result[1].status = "success"
    /\ Len(fp[i].result[1].hocr_paths) = 2

\* The rows of the token data that are kept, in engine order.
KeptTokens(data) == SelectSeq(data, LAMBDA t : ~Blank(t.text))

\* What stands between two consecutive kept tokens.
Between(s, t) ==
  IF Triple(s) = Triple(t) THEN <<" ">>
  ELSE IF s.par_num = t.par_num THEN <<"\n">>
  ELSE <<"\n", "\n">>

RECURSIVE Laid(_)
Laid(kept) ==
  IF kept = << >> THEN << >>
  ELSE IF Len(kept) = 1 THEN <<kept[1].text>>
  ELSE <<kept[1].text>> \o Between(kept[1], kept[2]) \o Laid(Tail(kept))

\* C25: the reconstructed text holds exactly the non-blank tokens in engine
\* order; two consecutive kept tokens are joined by one space iff their
\* (block, paragraph, line) triples are equal, are separated by a line break
\* when the triples differ, and by one more blank line iff their paragraph
\* numbers differ.
C25_Reconstruction ==
  recon.text # None => recon.text[1] = Laid(KeptTokens(recon.data))

C25_Witness ==
  /\ recon.text # None
  /\ recon.data = << Token("a", 1, 1, 1), Token("", 2, 2, 1), Token("b", 1, 1, 1) >>
  /\ recon.text[1] = <<"a", " ", "b">>

\* C26: for an image of size (w, h) and an integer budget max_side: when
\* max(w, h) <= max_side the size is unchanged; otherwise the longer side of
\* the result equals max_side and the shorter side is scaled by the same
\* factor (to within a pixel); and no side of the result is larger than the
\* image's.
C26_Rescale ==
  (rescale.out # None /\ rescale.max_side % 4 = 0) =>
    LET w == rescale.w
        h == rescale.h
        max_side == rescale.max_side \div 4
        longer == IF w >= h THEN w ELSE h
        shorter == IF w >= h THEN h ELSE w
        nw == rescale.out[1][1]
        nh == rescale.out[1][2]
        nlonger == IF w >= h THEN nw ELSE nh
        nshorter == IF w >= h THEN nh ELSE nw IN
    /\ nw <= w /\ nh <= h
    /\ IF longer <= max_side THEN nw = w /\ nh = h
       ELSE /\ nlonger = max_side
            /\ nshorter * longer <= shorter * max_side
            /\ shorter * max_side < (nshorter + 1) * longer

\* The pages of a frame for which every attempt failed, from the history of
\* what _ocr_image returned.
FailedPages(f) == {k \in 1..Len(f.rlog) : f.rlog[k] = None}
NthFailed(f, n) ==
  CHOOSE k \in FailedPages(f) : Cardinality({j \in FailedPages(f) : j <= k}) = n

\* C27: for a file that reaches aggregation, errors holds one entry per page
\* that failed all attempts, in page order, naming the page and its last
\* attempt, then the sub-threshold message as the last entry when the status
\* is low_accuracy, and nothing else (a page that succeeded adds none).
C27_ErrorsList ==
  \A i \in Files :
    fp[i].pc = "report" =>
      LET f == fp[i]
          res == f.result[1]
          nfailed == Cardinality(FailedPages(f))
          low == IF res.status = "low_accuracy" THEN 1 ELSE 0 IN
      /\ Len(res.errors) = nfailed + low
      /\ \A n \in 1..nfailed :
           res.errors[n] = Err("page", NthFailed(f, n), max_retries + 1)
      /\ low = 1 => res.errors[Len(res.errors)] = Err("low_accuracy", 0, 0)

\* A failed first page, a recognized second page and a sub-threshold mean.
C27_Witness ==
  \E i \in Files :
    /\ fp[i].pc = "report"
    /\ max_retries >= 1
    /\ Len(fp[i].rlog) = 2 /\ fp[i].rlog[1] = None /\ fp[i].rlog[2] # None
    /\ fp[i].result[1].status = "low_accuracy"
    /\ Len(fp[i].result[1].errors) = 2

\* The pages whose _ocr_image call returned token data without any integer
\* confidence >= 0 (a blank page).
NoConfidencePages(f) ==
  {k \in 1..Len(f.rlog) :
     f.rlog[k] # None /\ \A n \in 1..Len(f.rlog[k][1].conf) : f.rlog[k][1].conf[n] < 0}

\* C28: a page whose recognizer call succeeds without any token of
\* non-negative confidence is recorded as a successful page, its layout
\* artifact is written, its confidence is 0.0, and that 0.0 enters the file's
\* mean accuracy as a failed page's does (same value, counted in the page
\* total).
C28_BlankPage ==
  \A i \in Files :
    fp[i].pc = "report" =>
      LET f == fp[i]
          res == f.result[1] IN
      /\ \A k \in NoConfidencePages(f) :
           /\ f.page_status[k] = "success"
           /\ k \notin FailedPages(f)
           /\ HocrPath(inputs[i], k) \in DOMAIN disk
           /\ \E n \in 1..Len(res.hocr_paths) : res.hocr_paths[n] = HocrPath(inputs[i], k)
           /\ f.page_accuracies[k] = 0
           /\ \A j \in FailedPages(f) : f.page_accuracies[j] = f.page_accuracies[k]
      /\ NoConfidencePages(f) # {} =>
           /\ res.accuracy # None
           /\ res.accuracy[2] = f.page_count
           /\ res.accuracy[1] =
                SumSeq([k \in 1..f.page_count |->
                          IF k \in NoConfidencePages(f) \cup FailedPages(f) THEN 0
                          ELSE f.page_accuracies[k]])

\* A blank page, a failed page, and a mean over both.
C28_Witness ==
  \E i \in Files :
    /\ fp[i].pc = "report"
    /\ NoConfidencePages(fp[i]) # {}
    /\ FailedPages(fp[i]) # {}
    /\ fp[i].result[1].accuracy = <<0, 2>>

\* C29: when every rasterizer and recognizer call returns or raises, every
\* process_file invocation reaches done (it returns a result) after at most
\* page_count * (max_retries + 1) recognizer calls, and the batch call
\* eventually writes the run summary and returns.
C29_Termination ==
  /\ [](\A i \in Files : fp[i].ncalls <= fp[i].page_count * (max_retries + 1))
  /\ \A i \in 1..MaxFiles :
       (i \in Files /\ fp[i].pc = "pending") ~> (i \in Files /\ fp[i].pc = "done")
  /\ <>(bpc = "returned" /\ summary_writes = 1)

\* The text and layout artifacts on disk under the names of input i.
ArtifactsOf(i) ==
  {p \in DOMAIN disk : p.stem = inputs[i].stem /\ p.kind \in {"text", "hocr"}}

\* C30: when a batch result for a file has status failed, no text artifact
\* and no layout artifact was written for that file during the batch (files
\* whose stem no other input shares, so that the artifacts are theirs).
C30_FailedLeavesNothing ==
  \A n \in 1..Len(results) :
    LET i == order[n] IN
    (/\ results[n].status = "failed"
     /\ \A j \in Files : j # i => inputs[j].stem # inputs[i].stem)
      => ArtifactsOf(i) = {}

====
